---- MODULE Spec2Model ----
(***************************************************************************)
(* ClipSon: clipboard <-> WebDAV synchronisation daemon (src/clipson.py).  *)
(* Strings are sequences of one-character strings; an md5 digest is the    *)
(* digested sequence behind an "md5" tag (collision-free abstraction).     *)
(***************************************************************************)
EXTENDS Integers, Sequences, FiniteSets, TLC

\* ------------------------------------------------------------------ bounds
MaxTime == 4
MaxEvents == 3
MaxStrLen == 5
MaxAssign == 1001
MaxCalls == 2

\* ------------------------------------------------- configuration / constants
\* CONFIG_DATA['app']['remote_check_interval_seconds']
remote_check_interval == 2
\* get_next_file_number: the counter wraps after 999
MaxFileNumber == 999

Hosts == {"h1", "h2"}
\* machines of the same folder that are seen only through their remote files
Peers == {"h2", "h3"}

local_upload_file(h) == <<"clipboard-", h, ".json.gz">>

Files == {local_upload_file(h) : h \in Hosts \cup Peers}

\* --------------------------------------------------------------- strings
NoStr == <<>>
Absent == <<"ABSENT">>
Unset == <<"UNSET">>

IsSpace(c) == c \in {" ", "\n", "\t"}

RECURSIVE LStrip(_)
LStrip(s) == IF s # <<>> /\ IsSpace(Head(s)) THEN LStrip(Tail(s)) ELSE s

RECURSIVE RStrip(_)
RStrip(s) == IF s # <<>> /\ IsSpace(s[Len(s)]) THEN RStrip(SubSeq(s, 1, Len(s) - 1)) ELSE s

\* str.strip()
Strip(s) == RStrip(LStrip(s))

\* re.sub(r'\s+', ' ', s): every maximal run of whitespace becomes one space
RECURSIVE CollapseSpace(_)
CollapseSpace(s) ==
    IF s = <<>> THEN <<>>
    ELSE IF IsSpace(Head(s))
         THEN <<" ">> \o CollapseSpace(LStrip(s))
         ELSE <<Head(s)>> \o CollapseSpace(Tail(s))

\* re.sub(r'>\s+<', '><', s): whitespace standing between '>' and '<' is removed
RECURSIVE CloseTags(_)
CloseTags(s) ==
    IF s = <<>> THEN <<>>
    ELSE LET rest == Tail(s)
             after == LStrip(rest)
         IN IF /\ Head(s) = ">"
               /\ rest # <<>> /\ IsSpace(Head(rest))
               /\ after # <<>> /\ Head(after) = "<"
            THEN <<">">> \o CloseTags(after)
            ELSE <<Head(s)>> \o CloseTags(rest)

\* normalisation of text/html before hashing
NormalizeHtml(s) == CloseTags(CollapseSpace(Strip(s)))

\* hashlib.md5(x).hexdigest()
MD5(s) == <<"md5">> \o s

\* ------------------------------------------------------------- clipboard
image_targets == {"image/png", "image/jpeg", "image/gif", "image/bmp", "image/tiff"}

rich_text_formats == {"text/html", "text/rtf", "text/richtext", "application/rtf",
                      "application/x-rtf", "text/x-moz-url", "text/uri-list",
                      "application/x-color"}

format_priority == <<"text/plain", "text/html", "text/rtf", "application/rtf",
                     "application/x-rtf", "text/richtext", "text/uri-list",
                     "text/x-moz-url">>

dynamic_formats == {"text/html", "text/rtf", "application/rtf", "application/x-rtf"}

\* the targets a modelled clipboard can offer
Targets == {"image/png", "text/plain", "text/html", "text/rtf", "text/uri-list"}

EmptyClip == [t \in Targets |-> Absent]

\* the clipboard after one target has been written
OnlyTarget(t, v) == [u \in Targets |-> IF u = t THEN v ELSE Absent]

get_clipboard_formats(c) == {t \in DOMAIN c : c[t] # Absent}

has_clipboard_image(c) == \E t \in get_clipboard_formats(c) : t \in image_targets

has_clipboard_rich_text(c) == \E t \in get_clipboard_formats(c) : t \in rich_text_formats

\* get_clipboard_content: the text, or NoStr for None
get_clipboard_content(c) ==
    IF "text/plain" \in get_clipboard_formats(c) /\ Strip(c["text/plain"]) # <<>>
    THEN c["text/plain"] ELSE NoStr

\* xclip -t image/png -o: the bytes, or NoStr when the read fails or is empty
ReadImage(c) == IF "image/png" \in get_clipboard_formats(c) THEN c["image/png"] ELSE NoStr

\* the loop over format_priority of save_clipboard_rich_content and of the
\* fingerprint: <<format, stripped content>> pairs, a content already seen skipped
RECURSIVE CollectFrom(_, _, _)
CollectFrom(c, i, acc) ==
    IF i > Len(format_priority) THEN acc
    ELSE LET f == format_priority[i]
             content == IF f \in get_clipboard_formats(c) THEN Strip(c[f]) ELSE <<>>
             seen == {acc[k][2] : k \in 1..Len(acc)}
         IN IF content # <<>> /\ content \notin seen
            THEN CollectFrom(c, i + 1, Append(acc, <<f, content>>))
            ELSE CollectFrom(c, i + 1, acc)

CollectFormats(c) == CollectFrom(c, 1, <<>>)

\* ----------------------------------------------------------- fingerprints
EmptyFP == [kind |-> "", size |-> 0, hash |-> <<>>, formats |-> {}]

ImageFP(bytes) == [kind |-> "CLIPBOARD_IMAGE", size |-> Len(bytes), hash |-> MD5(bytes),
                   formats |-> {}]

PlainFP(text) == [kind |-> "PLAIN_TEXT", size |-> 0, hash |-> MD5(text), formats |-> {}]

\* comparison_data[fmt] of the multi-format fingerprint
ComparisonValue(fmt, content) ==
    IF fmt \in dynamic_formats
    THEN IF fmt = "text/html" THEN MD5(NormalizeHtml(content)) ELSE MD5(content)
    ELSE IF fmt = "text/plain" THEN MD5(content) ELSE content

ComparisonData(data) == {<<data[k][1], ComparisonValue(data[k][1], data[k][2])>> : k \in 1..Len(data)}

RichFP(data) == [kind |-> "formats", size |-> 0, hash |-> <<>>, formats |-> ComparisonData(data)]

\* the plain-text branch and the "no content" result
PlainBranch(c, lpt) ==
    IF get_clipboard_content(c) # NoStr
    THEN [fp |-> PlainFP(get_clipboard_content(c)), lpt |-> lpt]
    ELSE [fp |-> EmptyFP, lpt |-> lpt]

\* the rich-text branch, with the reuse of the previous fingerprint when the
\* hashed text/plain equals the remembered one
RichBranch(c, last, lpt) ==
    LET data == CollectFormats(c)
        plain == {p \in ComparisonData(data) : p[1] = "text/plain"}
        current_plain_text == (CHOOSE p \in plain : TRUE)[2]
    IN IF data = <<>> THEN PlainBranch(c, lpt)
       ELSE IF plain # {} /\ lpt # Unset /\ current_plain_text = lpt
            THEN [fp |-> IF last # EmptyFP THEN last ELSE RichFP(data), lpt |-> lpt]
            ELSE [fp |-> RichFP(data),
                  lpt |-> IF plain = {} THEN lpt ELSE current_plain_text]

\* get_current_clipboard_fingerprint: the value returned and the value of
\* last_plain_text_content afterwards (last = last_clipboard_content)
get_current_clipboard_fingerprint(c, last, lpt) ==
    IF has_clipboard_image(c) /\ ReadImage(c) # NoStr
    THEN [fp |-> ImageFP(ReadImage(c)), lpt |-> lpt]
    ELSE IF has_clipboard_rich_text(c) THEN RichBranch(c, last, lpt)
         ELSE PlainBranch(c, lpt)

\* ------------------------------------------------------ the JSON envelope
\* the decompressed content of a remote file: "type" and the payload.  The types
\* NONE (no such file), BADGZ (not gzip), BADUTF8 (not text), EMPTY (blank text),
\* BADJSON (not JSON) and UNKNOWN (another "type") stand for what a peer can leave.
Envelope(type, content, formats) == [type |-> type, content |-> content, formats |-> formats]

NoFile == Envelope("NONE", <<>>, <<>>)

\* base64.b64encode / b64decode
B64Encode(bytes) == <<"b64">> \o bytes

B64Decode(s) == Tail(s)

TextEnvelope(content) == Envelope("PLAIN_TEXT", content, <<>>)

ImageEnvelope(bytes) == Envelope("CLIPBOARD_IMAGE", B64Encode(bytes), <<>>)

MultiEnvelope(format_data) == Envelope("MULTI_FORMAT_CLIPBOARD", <<>>, format_data)

\* s.encode('utf-8').decode('unicode_escape'); "ERR" marks a UnicodeDecodeError
RECURSIVE UnicodeEscape(_)
UnicodeEscape(s) ==
    IF s = <<>> THEN <<>>
    ELSE IF Head(s) = "\\"
         THEN IF Len(s) = 1 THEN <<"ERR">>
              ELSE LET e == s[2]
                       r == UnicodeEscape(SubSeq(s, 3, Len(s)))
                   IN CASE e = "n" -> <<"\n">> \o r
                        [] e = "t" -> <<"\t">> \o r
                        [] e = "\\" -> <<"\\">> \o r
                        [] e = "a" -> <<"BEL">> \o r
                        [] e = "b" -> <<"BS">> \o r
                        [] OTHER -> <<"\\">> \o UnicodeEscape(Tail(s))
         ELSE IF Head(s) = "U+E9" THEN <<"U+C3", "U+A9">> \o UnicodeEscape(Tail(s))
              ELSE <<Head(s)>> \o UnicodeEscape(Tail(s))

\* the decoded string, or the original one after a UnicodeDecodeError
DecodeContent(s) ==
    LET d == UnicodeEscape(s)
    IN IF \E k \in 1..Len(d) : d[k] = "ERR" THEN s ELSE d

\* ------------------------------------------------------ clipboard writes
set_priority == <<"text/plain", "text/html", "text/rtf", "application/rtf",
                  "application/x-rtf", "text/richtext", "text/uri-list", "text/x-moz-url">>

FormatKeys(format_data) == {format_data[k][1] : k \in 1..Len(format_data)}

FormatValue(format_data, f) ==
    format_data[CHOOSE k \in 1..Len(format_data) : format_data[k][1] = f][2]

\* copyq copy f1 v1 f2 v2 ...: every format of set_priority in one call
CopyqFormats(format_data) ==
    [t \in Targets |->
        IF t \in FormatKeys(format_data) /\ \E k \in 1..Len(set_priority) : set_priority[k] = t
        THEN FormatValue(format_data, t) ELSE Absent]

\* xclip: one format, text/html, else text/rtf, else text/plain, else the first
\* variant: the first format of the map, whatever it is
XclipFirst(format_data) == format_data[1][1]

\* "for fmt in ['text/html', 'text/rtf', 'text/plain']: if fmt in format_data:
\* return self.set_xclip_format(...)", then "for fmt, value in
\* format_data.items(): return self.set_xclip_format(value, fmt)"
XclipFormat(format_data) ==
    IF "text/html" \in FormatKeys(format_data) THEN "text/html"
    ELSE IF "text/rtf" \in FormatKeys(format_data) THEN "text/rtf"
    ELSE IF "text/plain" \in FormatKeys(format_data) THEN "text/plain"
    ELSE format_data[1][1]

\* set_clipboard_multiple_formats: [ok, clip]
set_clipboard_multiple_formats(format_data, c, copyq, writeOK) ==
    IF copyq
    THEN IF writeOK THEN [ok |-> TRUE, clip |-> CopyqFormats(format_data)]
         ELSE [ok |-> FALSE, clip |-> c]
    ELSE IF format_data = <<>> \/ ~writeOK THEN [ok |-> FALSE, clip |-> c]
         ELSE [ok |-> TRUE,
               clip |-> OnlyTarget(XclipFormat(format_data),
                                   FormatValue(format_data, XclipFormat(format_data)))]

\* set_clipboard_content: [ok, clip]
set_clipboard_content(content, c, writeOK) ==
    IF writeOK THEN [ok |-> TRUE, clip |-> OnlyTarget("text/plain", content)]
    ELSE [ok |-> FALSE, clip |-> c]

\* variant: whatever was received is put on the clipboard as text
set_clipboard_content_raw(env, c, lih, copyq, writeOK) ==
    LET r == set_clipboard_content(<<"{">>, c, writeOK)
    IN [ok |-> r.ok, clip |-> r.clip, lih |-> lih]

\* set_clipboard_content_unified: [ok, clip, lih]; lih is last_image_hash
\* afterwards (set_clipboard_image stores the hash before it writes)
set_clipboard_content_unified(env, c, lih, copyq, writeOK) ==
    CASE env.type = "CLIPBOARD_IMAGE" ->
           [ok |-> writeOK,
            clip |-> IF writeOK THEN OnlyTarget("image/png", B64Decode(env.content)) ELSE c,
            lih |-> MD5(B64Decode(env.content))]
      [] env.type = "MULTI_FORMAT_CLIPBOARD" ->
           LET decoded == [k \in 1..Len(env.formats) |->
                              <<env.formats[k][1], DecodeContent(env.formats[k][2])>>]
               r == set_clipboard_multiple_formats(decoded, c, copyq, writeOK)
           IN [ok |-> r.ok, clip |-> r.clip, lih |-> lih]
      [] env.type = "PLAIN_TEXT" ->
           LET r == set_clipboard_content(DecodeContent(env.content), c, writeOK)
           IN [ok |-> r.ok, clip |-> r.clip, lih |-> lih]
      [] OTHER -> [ok |-> FALSE, clip |-> c, lih |-> lih]

\* ------------------------------------------------------------ remote store
\* a remote file: its decompressed content and its getlastmodified, in seconds
RemoteFile(body, mtime) == [body |-> body, mtime |-> mtime]

NotKey == -1

NoName == <<>>

Perms(S) == {p \in [1..Cardinality(S) -> S] : \A i, j \in 1..Cardinality(S) : p[i] = p[j] => i = j}

\* get_remote_clipboard_files: the entries of one PROPFIND, in the server's
\* order; last_modified 0 stands for None.  fault is what goes wrong in the
\* request: <<"list">> (no 207), <<"lm", name>> (no parsable getlastmodified)
Listings(store, fault) ==
    IF fault = <<"list">> THEN {<<>>}
    ELSE {[i \in 1..Len(p) |->
             [name |-> p[i],
              last_modified |-> IF fault = <<"lm", p[i]>> THEN 0 ELSE store[p[i]].mtime]] :
          p \in Perms({f \in Files : store[f].body.type # "NONE"})}

\* the faults of one poll: at most one per call
Faults == {<<"none">>, <<"list">>, <<"write">>}
            \cup {<<"lm", f>> : f \in Files} \cup {<<"get", f>> : f \in Files}

\* variant: the host's own file is not filtered out
PeerFilesIncludingOwn(listing, h) == listing

\* peer_files: the listing without the host's own file
PeerFiles(listing, h) == SelectSeq(listing, LAMBDA e : e.name # local_upload_file(h))

\* --------------------------------------- check_all_remote_files_for_updates
\* gets: the files requested; got: the files download_remote_file returned True for;
\* read: the files whose decompressed text was read and not blank
PollStart(ts) == [ts |-> ts, content |-> NoFile, timestamp |-> 0, filename |-> NoName,
                  gets |-> {}, got |-> {}, read |-> {}, order |-> <<>>]

\* variant: the file enumerated last replaces the selection, whatever its timestamp
IsEnumeratedLater(remote_timestamp, most_recent_timestamp) == TRUE

\* variant: a file as recent as the selection replaces it
IsNotOlder(remote_timestamp, most_recent_timestamp) == remote_timestamp >= most_recent_timestamp

\* "has_content and remote_timestamp > most_recent_timestamp"
IsMoreRecent(remote_timestamp, most_recent_timestamp) == remote_timestamp > most_recent_timestamp

\* variant: a download that fails is recorded like one that succeeded
FailedDownloadRecorded(ts, e) == [ts EXCEPT ![e.name] = e.last_modified]

\* "if self.download_remote_file(filename, temp_download_file_gz):" has no
\* else-branch: a failed download leaves the recorded timestamp as it is
\* variant: a file whose download fails is recorded as never seen
FailedDownloadReset(ts, e) == [ts EXCEPT ![e.name] = 0]

FailedDownloadTimestamps(ts, e) == ts

\* one iteration of "for file_info in peer_files"
PollFile(e, st, store, fault) ==
    LET is_new_file == st.ts[e.name] = NotKey
        ts1 == IF is_new_file THEN [st.ts EXCEPT ![e.name] = 0] ELSE st.ts
        body == store[e.name].body
    IN IF e.last_modified = 0 THEN [st EXCEPT !.ts = ts1]
       ELSE IF ~(e.last_modified > ts1[e.name]) THEN [st EXCEPT !.ts = ts1]
       ELSE IF fault = <<"get", e.name>>
            THEN [st EXCEPT !.ts = FailedDownloadTimestamps(ts1, e), !.gets = @ \cup {e.name}]
       ELSE IF body.type = "BADUTF8"
            THEN [st EXCEPT !.ts = ts1, !.gets = @ \cup {e.name}, !.got = @ \cup {e.name}]
       ELSE IF body.type \in {"BADGZ", "EMPTY"}
            THEN [st EXCEPT !.ts = [ts1 EXCEPT ![e.name] = e.last_modified],
                            !.gets = @ \cup {e.name}, !.got = @ \cup {e.name}]
       ELSE IF IsMoreRecent(e.last_modified, st.timestamp)
            THEN [ts |-> [ts1 EXCEPT ![e.name] = e.last_modified],
                  content |-> body, timestamp |-> e.last_modified, filename |-> e.name,
                  gets |-> st.gets \cup {e.name}, got |-> st.got \cup {e.name},
                  read |-> st.read \cup {e.name}, order |-> Append(st.order, e.name)]
            ELSE [st EXCEPT !.ts = [ts1 EXCEPT ![e.name] = e.last_modified],
                            !.gets = @ \cup {e.name}, !.got = @ \cup {e.name},
                            !.read = @ \cup {e.name}, !.order = Append(@, e.name)]

RECURSIVE PollLoop(_, _, _, _, _)
PollLoop(peer_files, i, st, store, fault) ==
    IF i > Len(peer_files) THEN st
    ELSE PollLoop(peer_files, i + 1, PollFile(peer_files[i], st, store, fault), store, fault)

\* ------------------------------------------------------------ local capture
\* variant: the counter is never wrapped
get_next_file_number_nowrap(file_counter) == file_counter + 1

get_next_file_number(file_counter) ==
    IF file_counter + 1 > MaxFileNumber THEN 1 ELSE file_counter + 1

Extension(f) ==
    CASE f = "text/plain" -> ".txt" [] f = "text/html" -> ".html" [] f = "text/rtf" -> ".rtf"
      [] f = "application/rtf" -> ".app-rtf" [] f = "application/x-rtf" -> ".x-rtf"
      [] f = "text/richtext" -> ".richtext" [] f = "text/uri-list" -> ".uri"
      [] f = "text/x-moz-url" -> ".url"

\* what a save_clipboard_* call leaves: its return value, the counter, the files
\* written, the first-capture flag, last_image_hash and the envelope it uploads
Saved(ok, fc, wrote, first, lih, upload) ==
    [ok |-> ok, fc |-> fc, wrote |-> wrote, first |-> first, lih |-> lih, upload |-> upload]

\* variant: the first capture is uploaded like any other
UploadAlways(first, env) == env

\* "if self.first_clipboard_capture: ... else: upload"
UploadUnlessFirst(first, env) == IF first THEN NoFile ELSE env

\* variant: the text saver leaves the first-capture flag as it is
save_clipboard_text_keeping_flag(content, fc, first, lih) ==
    LET n == get_next_file_number(fc)
    IN Saved(TRUE, n, {<<"clipboard_text", n, ".txt">>}, first, lih,
             UploadUnlessFirst(first, TextEnvelope(content)))

save_clipboard_text(content, fc, first, lih) ==
    LET n == get_next_file_number(fc)
    IN Saved(TRUE, n, {<<"clipboard_text", n, ".txt">>}, FALSE, lih,
             UploadUnlessFirst(first, TextEnvelope(content)))

save_clipboard_image(c, fc, first, lih) ==
    LET bytes == ReadImage(c)
        n == get_next_file_number(fc)
    IN IF bytes = NoStr THEN Saved(FALSE, fc, {}, first, lih, NoFile)
       ELSE IF lih # Unset /\ MD5(bytes) = lih THEN Saved(FALSE, fc, {}, first, lih, NoFile)
       ELSE Saved(TRUE, n, {<<"clipboard_image", n, ".png">>}, FALSE, MD5(bytes),
                  UploadUnlessFirst(first, ImageEnvelope(bytes)))

save_clipboard_rich_content(c, fc, first, lih) ==
    LET n == get_next_file_number(fc)
        format_data == CollectFormats(c)
    IN IF get_clipboard_formats(c) = {} THEN Saved(FALSE, fc, {}, first, lih, NoFile)
       ELSE IF format_data = <<>> THEN Saved(FALSE, n, {}, first, lih, NoFile)
       ELSE Saved(TRUE, n,
                  {<<"clipboard_rich", n, Extension(format_data[k][1])>> : k \in 1..Len(format_data)},
                  FALSE, lih, UploadUnlessFirst(first, MultiEnvelope(format_data)))

\* the same calls when open() of a capture file raises OSError: the number has
\* been assigned, nothing is written; save_clipboard_image and
\* save_clipboard_rich_content catch the error and return False
SaveWriteFails(c, fc, first, lih) ==
    LET n == get_next_file_number(fc)
    IN IF has_clipboard_image(c)
       THEN IF ReadImage(c) = NoStr \/ (lih # Unset /\ MD5(ReadImage(c)) = lih)
            THEN Saved(FALSE, fc, {}, first, lih, NoFile)
            ELSE Saved(FALSE, n, {}, first, lih, NoFile)
       ELSE IF has_clipboard_rich_text(c)
            THEN Saved(FALSE, n, {}, first, lih, NoFile)
       ELSE IF get_clipboard_content(c) # NoStr
            THEN Saved(FALSE, n, {}, first, lih, NoFile)
            ELSE Saved(FALSE, fc, {}, first, lih, NoFile)

\* save_clipboard_text has no handler of its own: the error leaves it and run()'s body
SaveRaises(c) ==
    ~has_clipboard_image(c) /\ ~has_clipboard_rich_text(c) /\ get_clipboard_content(c) # NoStr

\* the branch of run(): image, else rich text, else plain text
\* "if has_image: self.save_clipboard_image() / elif has_rich: ... / else:
\* current_text = self.get_clipboard_content()": the saver is chosen by what
\* the kind detection saw (k) and reads the clipboard again (c)
SaveByKindOf(k, c, fc, first, lih) ==
    IF has_clipboard_image(k) THEN save_clipboard_image(c, fc, first, lih)
    ELSE IF has_clipboard_rich_text(k) THEN save_clipboard_rich_content(c, fc, first, lih)
    ELSE IF get_clipboard_content(c) # NoStr
         THEN save_clipboard_text(get_clipboard_content(c), fc, first, lih)
         ELSE Saved(FALSE, fc, {}, first, lih, NoFile)

SaveByKind(c, fc, first, lih) == SaveByKindOf(c, c, fc, first, lih)

\* ------------------------------------------------------------------ state
VARIABLES
    now,                      \* time.time(), in whole seconds
    remote,                   \* the remote folder: file name -> RemoteFile
    clip,                     \* each host's clipboard: target -> content
    pc,                       \* each host's place in run()
    last_clipboard_content,   \* the last-known fingerprint
    last_plain_text_content,  \* hashed text/plain remembered by the fingerprint
    last_image_hash,
    file_counter,
    first_clipboard_capture,
    remote_file_timestamps,   \* file name -> recorded timestamp, NotKey if no key
    last_remote_check,
    use_copyq,
    captures,                 \* the files of the capture directory
    local_sync_file,          \* the envelope in clipboard-<host>.json
    io,                       \* what the latest step did to the outside
    setter,                   \* who wrote each clipboard last: user or remote
    assigned,                 \* how many file numbers each host has assigned
    successes,                \* successful captures of each host, counted to 3
    polled,                   \* hosts with a full poll since the last push or copy
    events,                   \* user copies, uploads of outside peers and failed
                              \* calls of a capture so far
    returned,                 \* the values returned by direct fingerprint calls
    poll_failed               \* the request that failed in each host's latest
                              \* full poll, <<"none">> if none did

hostvars == <<clip, pc, last_clipboard_content, last_plain_text_content, last_image_hash,
              file_counter, first_clipboard_capture, remote_file_timestamps,
              last_remote_check, use_copyq, captures, local_sync_file>>

histvars == <<io, setter, assigned, successes, polled, events, returned, poll_failed>>

vars == <<now, remote, hostvars, histvars>>

\* ---------------------------------------------------------- bounded inputs
TextA == OnlyTarget("text/plain", <<"a">>)

TextB == OnlyTarget("text/plain", <<"b">>)

Image1 == OnlyTarget("image/png", <<"x", "y">>)

\* the text "a" copied from an application that also offers HTML
Rich1 == [EmptyClip EXCEPT !["text/plain"] = <<"a">>, !["text/html"] = <<"<", ">", " ", "<", ">">>]

ClipChoices == {TextA, Image1, Rich1}

\* what the external peer leaves in its file
PeerBodies(p) ==
    IF p = "h2" THEN {TextEnvelope(<<"p">>), ImageEnvelope(<<"x", "y">>)}
    ELSE {TextEnvelope(<<"q">>), Envelope("BADGZ", <<>>, <<>>)}

\* error: the call that failed in the step, <<"none">> if none did
\* ran: the stages of run() before the loop that the step went through, each
\* with its outcome
\* order: the files read, in the order of the enumeration
NoIO == [step |-> "none", host |-> "", propfind |-> FALSE, gets |-> {}, got |-> {},
         read |-> {}, applied |-> NoName, put |-> FALSE, wrote |-> {},
         error |-> <<"none">>, ran |-> <<>>, order |-> <<>>]

\* ------------------------------------------------------------------- Init
InitCommon ==
    /\ now = remote_check_interval
    /\ remote = [f \in Files |-> RemoteFile(NoFile, 0)]
    /\ clip = [h \in Hosts |-> EmptyClip]
    /\ pc = [h \in Hosts |-> "start"]
    /\ last_clipboard_content = [h \in Hosts |-> EmptyFP]
    /\ last_plain_text_content = [h \in Hosts |-> Unset]
    /\ last_image_hash = [h \in Hosts |-> Unset]
    /\ file_counter = [h \in Hosts |-> 0]
    /\ first_clipboard_capture = [h \in Hosts |-> TRUE]
    /\ remote_file_timestamps = [h \in Hosts |-> [f \in Files |-> NotKey]]
    /\ last_remote_check = [h \in Hosts |-> 0]
    /\ captures = [h \in Hosts |-> {}]
    /\ local_sync_file = [h \in Hosts |-> NoFile]
    /\ io = NoIO
    /\ setter = [h \in Hosts |-> "user"]
    /\ assigned = [h \in Hosts |-> 0]
    /\ successes = [h \in Hosts |-> 0]
    /\ polled = {}
    /\ events = 0
    /\ returned = <<>>
    /\ poll_failed = [h \in Hosts |-> <<"none">>]

\* h1 runs Backend A (copyq), h2 Backend B (xclip)
Init == InitCommon /\ use_copyq = [h \in Hosts |-> h = "h1"]

\* ---------------------------------------------------------------- actions
\* run() up to the loop: check_dependencies, test_webdav_connection and
\* discover_remote_peers
\* variant: every discovered file is recorded as never seen
DiscoveredAsNew(peer_files, ts) ==
    [f \in Files |->
        IF \E k \in 1..Len(peer_files) : peer_files[k].name = f THEN 0 ELSE ts[f]]

\* "if file_info['last_modified']: self.remote_file_timestamps[name] =
\* file_info['last_modified'].timestamp() / else: ... = 0"
DiscoveredTimestamps(peer_files, ts) ==
    [f \in Files |->
        IF \E k \in 1..Len(peer_files) : peer_files[k].name = f
        THEN (CHOOSE e \in {peer_files[k] : k \in 1..Len(peer_files)} : e.name = f).last_modified
        ELSE ts[f]]

StartupOrder == <<"check_dependencies", "test_webdav_connection", "discover_remote_peers">>

\* variant: the outcome of a stage does not stop the next one
StartupStagesUngated(deps_ok, conn_ok, disc_ok) ==
    <<<<StartupOrder[1], deps_ok>>, <<StartupOrder[2], conn_ok>>, <<StartupOrder[3], disc_ok>>>>

\* "self.check_dependencies()" ends in sys.exit(1) when a command is missing;
\* "if not self.test_webdav_connection(): ... sys.exit(1)"; then
\* "peer_files = self.discover_remote_peers()", whose outcome stops nothing
StartupStages(deps_ok, conn_ok, disc_ok) ==
    IF ~deps_ok THEN <<<<StartupOrder[1], FALSE>>>>
    ELSE IF ~conn_ok THEN <<<<StartupOrder[1], TRUE>>, <<StartupOrder[2], FALSE>>>>
    ELSE <<<<StartupOrder[1], TRUE>>, <<StartupOrder[2], TRUE>>, <<StartupOrder[3], disc_ok>>>>

\* what went wrong in the enumeration of discover_remote_peers, if anything
DiscoveryError(fault, store) ==
    IF \/ fault = <<"list">>
       \/ fault \in {<<"lm", f>> : f \in {g \in Files : store[g].body.type # "NONE"}}
    THEN fault ELSE <<"none">>

StartupWith(h, oks, faults) ==
    /\ pc[h] = "start"
    /\ \E deps_ok, conn_ok \in oks :
       \E fault \in faults \ ({<<"write">>} \cup {<<"get", f>> : f \in Files}) :
       \E listing \in Listings(remote, fault) :
          LET ran == StartupStages(deps_ok, conn_ok, fault # <<"list">>)
          IN IF Len(ran) = Len(StartupOrder)
             THEN /\ pc' = [pc EXCEPT ![h] = "poll"]
                  /\ remote_file_timestamps' =
                        [remote_file_timestamps EXCEPT
                           ![h] = DiscoveredTimestamps(PeerFiles(listing, h), @)]
                  /\ io' = [NoIO EXCEPT !.step = "startup", !.host = h, !.propfind = TRUE,
                                        !.ran = ran, !.error = DiscoveryError(fault, remote)]
             ELSE /\ pc' = [pc EXCEPT ![h] = "exited"]
                  /\ UNCHANGED remote_file_timestamps
                  /\ io' = [NoIO EXCEPT !.step = "startup", !.host = h, !.ran = ran]
    /\ UNCHANGED <<now, remote, clip, last_clipboard_content, last_plain_text_content,
                   last_image_hash, file_counter, first_clipboard_capture,
                   last_remote_check, poll_failed, use_copyq, captures, local_sync_file,
                   setter, assigned, successes, polled, events, returned>>

\* variant: the interval is not enforced
RateLimitedNever(h) == FALSE

\* "if current_time - self.last_remote_check < self.remote_check_interval"
RateLimited(h) == now - last_remote_check[h] < remote_check_interval

\* variant: last-known is left as it was after a remote apply
KeptFingerprint(c, last, lpt) == [fp |-> last, lpt |-> lpt]

\* "actual_fingerprint = self.get_current_clipboard_fingerprint()" after the write
ActualFingerprint(c, last, lpt) == get_current_clipboard_fingerprint(c, last, lpt)

\* what went wrong in this poll, if the fault drawn hit something the poll did
PollError(fault, st, found, store) ==
    IF \/ fault = <<"list">>
       \/ fault \in {<<"lm", f>> : f \in {g \in Files : store[g].body.type # "NONE"}}
       \/ fault \in {<<"get", f>> : f \in st.gets \ st.got}
       \/ fault = <<"write">> /\ found
    THEN fault ELSE <<"none">>

\* the error, if it is one of a request to the remote folder
RemoteError(error) == IF error[1] \in {"list", "get"} THEN error ELSE <<"none">>

PollStep(h, faults) ==
    /\ pc[h] = "poll"
    /\ pc' = [pc EXCEPT ![h] = "detect"]
    /\ IF RateLimited(h)
       THEN /\ io' = [NoIO EXCEPT !.step = "poll", !.host = h]
            /\ UNCHANGED <<clip, last_clipboard_content, last_plain_text_content,
                           last_image_hash, remote_file_timestamps, last_remote_check, poll_failed,
                           setter, polled>>
       ELSE \E fault \in faults : \E listing \in Listings(remote, fault) :
            LET st == PollLoop(PeerFiles(listing, h), 1,
                               PollStart(remote_file_timestamps[h]), remote, fault)
                found == st.content # NoFile
                w == set_clipboard_content_unified(st.content, clip[h], last_image_hash[h],
                                                   use_copyq[h], fault # <<"write">>)
                f == ActualFingerprint(w.clip, last_clipboard_content[h],
                                       last_plain_text_content[h])
            IN /\ last_remote_check' = [last_remote_check EXCEPT ![h] = now]
               /\ poll_failed' = [poll_failed EXCEPT ![h] = RemoteError(PollError(fault, st, found, remote))]
               /\ remote_file_timestamps' = [remote_file_timestamps EXCEPT ![h] = st.ts]
               /\ polled' = polled \cup {h}
               /\ io' = [NoIO EXCEPT !.step = "poll", !.host = h, !.propfind = TRUE,
                                     !.gets = st.gets, !.got = st.got, !.read = st.read,
                                     !.order = st.order,
                                     !.applied = IF w.ok THEN st.filename ELSE NoName,
                                     !.error = PollError(fault, st, found, remote)]
               /\ IF found
                  THEN /\ clip' = [clip EXCEPT ![h] = w.clip]
                       /\ last_image_hash' = [last_image_hash EXCEPT ![h] = w.lih]
                       /\ setter' = [setter EXCEPT ![h] = IF w.ok THEN "remote" ELSE @]
                       /\ IF w.ok
                          THEN /\ last_clipboard_content' =
                                     [last_clipboard_content EXCEPT ![h] = f.fp]
                               /\ last_plain_text_content' =
                                     [last_plain_text_content EXCEPT ![h] = f.lpt]
                          ELSE UNCHANGED <<last_clipboard_content, last_plain_text_content>>
                  ELSE UNCHANGED <<clip, last_image_hash, setter, last_clipboard_content,
                                   last_plain_text_content>>
    /\ UNCHANGED <<now, remote, file_counter, first_clipboard_capture, use_copyq,
                   captures, local_sync_file, assigned, successes, events>>

PollWith(h, faults) == PollStep(h, faults) /\ UNCHANGED returned

\* variant: a capture leaves the sync file alone
SyncFileKept(old, upload) == old

\* "with open(self.local_sync_file, 'w', encoding='utf-8') as f:
\* f.write(upload_json)", in the branch that uploads
SyncFileWritten(old, upload) == IF upload # NoFile THEN upload ELSE old

\* variant: every non-empty fingerprint counts as a change
ChangedIfContent(fp, last) == fp # EmptyFP

\* the rest of the iteration: fingerprint, comparison, capture and upload
Changed(fp, last) == fp # EmptyFP /\ fp # last

\* what can go wrong in this half: "put" (the upload is refused), "fswrite" (a
\* capture file cannot be opened for writing), "read" (every clipboard read fails)
DetectFaults == {"none", "put", "fswrite", "read"}

\* variant: an error that reaches run() ends the process
OnLoopErrorExit == "exited"

\* "except Exception as e: print(...); time.sleep(1)": the loop goes on
OnLoopError == "poll"

\* the second half of an iteration, with the clipboard as the three reads of
\* the iteration find it: ck at the kind detection, cf at the fingerprint,
\* cs in the saver
DetectReads(h, faults, ck, cf, cs) ==
    /\ \E fault \in faults :
       LET k == IF fault = "read" THEN EmptyClip ELSE ck
           c == IF fault = "read" THEN EmptyClip ELSE cs
           f == get_current_clipboard_fingerprint(IF fault = "read" THEN EmptyClip ELSE cf,
                                                  last_clipboard_content[h],
                                                  last_plain_text_content[h])
           s == IF fault = "fswrite"
                THEN SaveWriteFails(c, file_counter[h], first_clipboard_capture[h],
                                    last_image_hash[h])
                ELSE SaveByKindOf(k, c, file_counter[h], first_clipboard_capture[h],
                                  last_image_hash[h])
           changed == Changed(f.fp, last_clipboard_content[h])
           upload == s.upload # NoFile
           raised == changed /\ fault = "fswrite" /\ SaveRaises(c)
           effective == CASE fault = "read" -> cs # EmptyClip
                          [] fault = "fswrite" -> changed /\ s.fc # file_counter[h]
                          [] fault = "put" -> changed /\ upload
                          [] OTHER -> FALSE
       IN /\ fault = "none" \/ (effective /\ events < MaxEvents)
          /\ events' = IF fault = "none" THEN events ELSE events + 1
          /\ pc' = [pc EXCEPT ![h] = IF raised THEN OnLoopError ELSE "poll"]
          /\ last_plain_text_content' = [last_plain_text_content EXCEPT ![h] = f.lpt]
          /\ IF changed
             THEN /\ last_clipboard_content' =
                        [last_clipboard_content EXCEPT ![h] = IF raised THEN @ ELSE f.fp]
                  /\ file_counter' = [file_counter EXCEPT ![h] = s.fc]
                  /\ first_clipboard_capture' = [first_clipboard_capture EXCEPT ![h] = s.first]
                  /\ last_image_hash' = [last_image_hash EXCEPT ![h] = s.lih]
                  /\ captures' = [captures EXCEPT ![h] = @ \cup s.wrote]
                  /\ assigned' = [assigned EXCEPT ![h] = IF s.fc # file_counter[h] THEN @ + 1 ELSE @]
                  /\ successes' = [successes EXCEPT ![h] = IF s.ok /\ @ < 3 THEN @ + 1 ELSE @]
                  /\ local_sync_file' = [local_sync_file EXCEPT ![h] = SyncFileWritten(@, s.upload)]
                  /\ IF upload /\ fault # "put"
                     THEN /\ remote' = [remote EXCEPT ![local_upload_file(h)] = RemoteFile(s.upload, now)]
                          /\ polled' = {}
                     ELSE UNCHANGED <<remote, polled>>
                  /\ io' = [NoIO EXCEPT !.step = "detect", !.host = h, !.put = upload,
                                        !.wrote = s.wrote,
                                        !.error = IF effective THEN <<fault>> ELSE <<"none">>]
             ELSE /\ io' = [NoIO EXCEPT !.step = "detect", !.host = h,
                                        !.error = IF effective THEN <<fault>> ELSE <<"none">>]
                  /\ UNCHANGED <<last_clipboard_content, file_counter, first_clipboard_capture,
                                 last_image_hash, captures, assigned, successes,
                                 local_sync_file, remote, polled>>
    /\ UNCHANGED <<now, clip, remote_file_timestamps, last_remote_check, poll_failed, use_copyq,
                   setter>>

\* the three reads follow each other at once
DetectWith(h, faults) ==
    /\ pc[h] = "detect"
    /\ DetectReads(h, faults, clip[h], clip[h], clip[h])
    /\ UNCHANGED returned

\* the user copies something on host h
UserCopyFrom(h, choices) ==
    /\ events < MaxEvents
    /\ \E c \in choices :
          /\ c # clip[h]
          /\ clip' = [clip EXCEPT ![h] = c]
    /\ events' = events + 1
    /\ setter' = [setter EXCEPT ![h] = "user"]
    /\ polled' = {}
    /\ io' = [NoIO EXCEPT !.step = "copy", !.host = h]
    /\ UNCHANGED <<now, remote, pc, last_clipboard_content, last_plain_text_content,
                   last_image_hash, file_counter, first_clipboard_capture,
                   remote_file_timestamps, last_remote_check, poll_failed, use_copyq, captures,
                   local_sync_file, assigned, successes, returned>>

\* the external peer replaces its file
PeerPushFrom(p, bodies) ==
    /\ events < MaxEvents
    /\ \E body \in bodies :
          remote' = [remote EXCEPT ![local_upload_file(p)] = RemoteFile(body, now)]
    /\ events' = events + 1
    /\ polled' = {}
    /\ io' = [NoIO EXCEPT !.step = "peer"]
    /\ UNCHANGED <<now, hostvars, setter, assigned, successes, returned,
                   poll_failed>>

PeerPush(p) == PeerPushFrom(p, PeerBodies(p))

\* a second passes
Advance ==
    /\ now < MaxTime
    /\ now' = now + 1
    /\ io' = [NoIO EXCEPT !.step = "advance"]
    /\ UNCHANGED <<remote, hostvars, setter, assigned, successes, polled, events, returned,
                   poll_failed>>

Startup(h) == StartupWith(h, BOOLEAN, Faults)

UserCopy(h) == UserCopyFrom(h, ClipChoices)

Poll(h) == PollWith(h, Faults)

Detect(h) == DetectWith(h, DetectFaults)

\* one host among peers that are seen through their files only
Next ==
    \/ Startup("h1")
    \/ Poll("h1")
    \/ Detect("h1")
    \/ UserCopy("h1")
    \/ \E p \in Peers : PeerPush(p)
    \/ Advance

Spec == Init /\ [][Next]_vars

\* ------------------------------------------ two hosts on the same folder
\* both hosts run the loop on Backend A, no call fails, and a third machine
\* uploads its clipboard
InitTwo == InitCommon /\ use_copyq = [h \in Hosts |-> TRUE]

StartupNoFault(h) == StartupWith(h, {TRUE}, {<<"none">>})

PollNoFault(h) == PollWith(h, {<<"none">>})

DetectNoFault(h) == DetectWith(h, {"none"})

UserCopyText(h) == UserCopyFrom(h, {TextA, TextB})

\* the users and the third machine act once both hosts are in the loop
\* a peer uploads a well-formed snapshot
PeerPushValid(p) == PeerPushFrom(p, {TextEnvelope(<<"q">>)})

AllStarted == \A h \in Hosts : pc[h] \in {"poll", "detect"}

NextTwo ==
    \/ \E h \in Hosts : StartupNoFault(h)
    \/ \E h \in Hosts : PollNoFault(h)
    \/ \E h \in Hosts : DetectNoFault(h)
    \/ AllStarted /\ \E h \in Hosts : UserCopyText(h)
    \/ AllStarted /\ PeerPushValid("h3")
    \/ Advance

SpecTwo == InitTwo /\ [][NextTwo]_vars

\* ------------------------------------------------- one host, things going wrong
\* what a peer, or anything else that writes to the folder, can leave in a file
JunkBodies ==
    {TextEnvelope(<<"p">>)} \cup
    {Envelope(t, <<>>, <<>>) : t \in {"BADGZ", "BADUTF8", "EMPTY", "BADJSON", "UNKNOWN"}}

PeerPushAny(p) == PeerPushFrom(p, JunkBodies)

UserCopyPlain(h) == UserCopyFrom(h, {TextA, Image1})

NextErr ==
    \/ StartupNoFault("h1")
    \/ Poll("h1")
    \/ Detect("h1")
    \/ UserCopyPlain("h1")
    \/ PeerPushAny("h2")
    \/ Advance

SpecErr == Init /\ [][NextErr]_vars

\* ------------------------------------- a host started on a folder already in use
\* an earlier run of this host and its peers may have left their files
StoredBodies(f) ==
    IF f = local_upload_file("h1") THEN {NoFile, TextEnvelope(<<"a">>)}
    ELSE IF f = local_upload_file("h2") THEN {NoFile, TextEnvelope(<<"p">>)}
    ELSE {NoFile}

InitStored ==
    /\ InitCommon
    /\ use_copyq = [h \in Hosts |-> h = "h1"]
    /\ \E store \in [Files -> {NoFile, TextEnvelope(<<"a">>), TextEnvelope(<<"p">>)}] :
          /\ \A f \in Files : store[f] \in StoredBodies(f)
          /\ remote = [f \in Files |-> RemoteFile(store[f], IF store[f] = NoFile THEN 0 ELSE 1)]

NextSelf ==
    \/ StartupNoFault("h1")
    \/ PollNoFault("h1")
    \/ DetectNoFault("h1")
    \/ UserCopyText("h1")
    \/ PeerPushValid("h2")
    \/ Advance

SpecSelf == InitStored /\ [][NextSelf]_vars

\* ------------------------------------------------ one host that is interrupted
\* where the main thread is inside the second half of an iteration when
\* SIGINT arrives: before the fingerprint is taken, after the capture file is
\* written, after the sync file is written
InterruptPoints == {"fingerprint", "captured", "synced"}

\* "def signal_handler(self, signum, frame): ... sys.exit(0)": the handler
\* runs in the main thread wherever it is, and SystemExit passes through
\* "except Exception"; what the interrupted iteration had done so far stays
Interrupt(h) ==
    /\ pc[h] \in {"poll", "detect"}
    /\ pc' = [pc EXCEPT ![h] = "stopped"]
    /\ IF pc[h] = "poll"
       THEN /\ io' = [NoIO EXCEPT !.step = "interrupt", !.host = h]
            /\ UNCHANGED <<file_counter, captures, assigned, local_sync_file>>
       ELSE \E point \in InterruptPoints :
            LET f == get_current_clipboard_fingerprint(clip[h], last_clipboard_content[h],
                                                       last_plain_text_content[h])
                s == SaveByKind(clip[h], file_counter[h], first_clipboard_capture[h],
                                last_image_hash[h])
                changed == Changed(f.fp, last_clipboard_content[h])
                saving == changed /\ point # "fingerprint"
                synced == saving /\ point = "synced" /\ s.upload # NoFile
            IN /\ point = "fingerprint" \/ (changed /\ s.wrote # {})
               /\ point = "synced" => s.upload # NoFile
               /\ file_counter' = [file_counter EXCEPT ![h] = IF saving THEN s.fc ELSE @]
               /\ captures' = [captures EXCEPT ![h] = IF saving THEN @ \cup s.wrote ELSE @]
               /\ assigned' = [assigned EXCEPT ![h] = IF saving THEN @ + 1 ELSE @]
               /\ local_sync_file' = [local_sync_file EXCEPT ![h] = IF synced THEN s.upload ELSE @]
               /\ io' = [NoIO EXCEPT !.step = "interrupt", !.host = h,
                                     !.wrote = IF saving THEN s.wrote ELSE {}]
    /\ UNCHANGED <<now, remote, clip, last_clipboard_content, last_plain_text_content,
                   last_image_hash, first_clipboard_capture, remote_file_timestamps,
                   last_remote_check, poll_failed, use_copyq, setter, successes, polled, events,
                   returned>>

NextInt ==
    \/ StartupNoFault("h1")
    \/ PollNoFault("h1")
    \/ DetectNoFault("h1")
    \/ UserCopyText("h1")
    \/ PeerPushValid("h2")
    \/ Advance
    \/ Interrupt("h1")

SpecInt == Init /\ [][NextInt]_vars

\* ------------------------------------------------ rich text on both sides
\* a peer uploads rich text: the text "a" with other HTML than Rich1, or HTML only
RichBodies ==
    {MultiEnvelope(<<<<"text/plain", <<"a">>>>, <<"text/html", <<"<", ">">>>>>>),
     MultiEnvelope(<<<<"text/html", <<"<", ">">>>>>>),
     TextEnvelope(<<"a">>)}

PeerPushRich(p) == PeerPushFrom(p, RichBodies)

UserCopyRich(h) == UserCopyFrom(h, {Rich1, Image1})

\* the host runs on either backend
InitRich == InitCommon /\ use_copyq \in [Hosts -> BOOLEAN] /\ ~use_copyq["h2"]

NextRich ==
    \/ StartupNoFault("h1")
    \/ PollNoFault("h1")
    \/ DetectNoFault("h1")
    \/ UserCopyRich("h1")
    \/ PeerPushRich("h2")
    \/ Advance

SpecRich == InitRich /\ [][NextRich]_vars

\* --------------------------------------------- a long run of local captures
Image2 == OnlyTarget("image/png", <<"y", "x">>)

RotClips == <<TextA, Image1, Image2>>

\* the user copies the next clipboard of the cycle once the last one is known
CycleCopy(h, clips) ==
    /\ pc[h] = "poll"
    /\ assigned[h] < MaxAssign
    /\ ~Changed(get_current_clipboard_fingerprint(clip[h], last_clipboard_content[h],
                                                  last_plain_text_content[h]).fp,
                last_clipboard_content[h])
    /\ clip' = [clip EXCEPT ![h] = clips[(assigned[h] % Len(clips)) + 1]]
    /\ setter' = [setter EXCEPT ![h] = "user"]
    /\ io' = [NoIO EXCEPT !.step = "copy", !.host = h]
    /\ UNCHANGED <<now, remote, pc, last_clipboard_content, last_plain_text_content,
                   last_image_hash, file_counter, first_clipboard_capture,
                   remote_file_timestamps, last_remote_check, poll_failed, use_copyq, captures,
                   local_sync_file, assigned, successes, polled, events, returned>>

RotCopy(h) == CycleCopy(h, RotClips)

NextRot ==
    \/ StartupNoFault("h1")
    \/ PollNoFault("h1")
    \/ DetectNoFault("h1")
    \/ RotCopy("h1")

SpecRot == Init /\ [][NextRot]_vars

\* the same with texts and images in turn
MixClips == <<TextA, Image1, TextB, Image2>>

MixCopy(h) == CycleCopy(h, MixClips)

NextMix ==
    \/ StartupNoFault("h1")
    \/ PollNoFault("h1")
    \/ DetectNoFault("h1")
    \/ MixCopy("h1")

SpecMix == Init /\ [][NextMix]_vars

\* ------------------------------------- the fingerprint as a function of its inputs
FPTexts == {<<"a">>, <<"a", " ", "b">>}

FPHtmls == {<<"a", " ", "b">>, <<"<", ">", "<", ">">>}

FPClips ==
    {[t \in Targets |->
         CASE t = "image/png" -> img [] t = "text/plain" -> plain [] t = "text/html" -> html
           [] t = "text/rtf" -> rtf [] t = "text/uri-list" -> uri] :
     img \in {Absent, <<"x", "y">>}, plain \in {Absent} \cup FPTexts,
     html \in {Absent} \cup FPHtmls, rtf \in {Absent},
     uri \in {Absent, <<"a", " ", "b">>}}

\* the fingerprints and hashes an earlier capture can have left behind
FPLasts == {EmptyFP, ImageFP(<<"x", "y">>), PlainFP(<<"a">>)}

FPHashes == {Unset, MD5(<<"a">>)}

\* the HTML strings that differ from html in whitespace only, by one edit
Respaced(html) ==
    LET spaces == {i \in 1..Len(html) : IsSpace(html[i])}
        joints == {i \in 1..(Len(html) - 1) : html[i] = ">" /\ html[i + 1] = "<"}
        Insert(i, c) == SubSeq(html, 1, i) \o <<c>> \o SubSeq(html, i + 1, Len(html))
    IN \* a run of whitespace made longer
       {Insert(i, c) : i \in spaces, c \in {" ", "\n"}}
       \* one whitespace character for another
       \cup ({[html EXCEPT ![i] = c] : i \in spaces, c \in {" ", "\n"}} \ {html})
       \* whitespace put between two tags
       \cup {Insert(i, " ") : i \in joints}

\* the application re-serialises its HTML with other whitespace
Respace(h) ==
    /\ clip[h]["text/html"] # Absent
    /\ \E s \in Respaced(clip[h]["text/html"]) :
          /\ Len(s) <= MaxStrLen
          /\ clip' = [clip EXCEPT ![h]["text/html"] = s]
    /\ io' = [NoIO EXCEPT !.step = "respace", !.host = h]
    /\ UNCHANGED <<now, remote, pc, last_clipboard_content, last_plain_text_content,
                   last_image_hash, file_counter, first_clipboard_capture,
                   remote_file_timestamps, last_remote_check, poll_failed, use_copyq, captures,
                   local_sync_file, setter, assigned, successes, polled, events, returned>>

\* a direct call of get_current_clipboard_fingerprint
CallFingerprint(h) ==
    /\ Len(returned) < MaxCalls
    /\ LET f == get_current_clipboard_fingerprint(clip[h], last_clipboard_content[h],
                                                  last_plain_text_content[h])
       IN /\ returned' = Append(returned, [fp |-> f.fp, clip |-> clip[h],
                                           last |-> last_clipboard_content[h]])
          /\ last_plain_text_content' = [last_plain_text_content EXCEPT ![h] = f.lpt]
    /\ io' = [NoIO EXCEPT !.step = "call", !.host = h]
    /\ UNCHANGED <<now, remote, clip, pc, last_clipboard_content,
                   last_image_hash, file_counter, first_clipboard_capture,
                   remote_file_timestamps, last_remote_check, poll_failed, use_copyq, captures,
                   local_sync_file, setter, assigned, successes, polled, events>>

\* "self.last_clipboard_content = current_fingerprint" after a call
StoreLast(h) ==
    /\ returned # <<>>
    /\ last_clipboard_content[h] # returned[Len(returned)].fp
    /\ last_clipboard_content' = [last_clipboard_content EXCEPT ![h] = returned[Len(returned)].fp]
    /\ io' = [NoIO EXCEPT !.step = "store", !.host = h]
    /\ UNCHANGED <<now, remote, clip, pc, last_plain_text_content,
                   last_image_hash, file_counter, first_clipboard_capture,
                   remote_file_timestamps, last_remote_check, poll_failed, use_copyq, captures,
                   local_sync_file, setter, assigned, successes, polled, events, returned>>

\* any clipboard, any last-known fingerprint, any remembered text hash
Prepare(h) ==
    /\ io.step = "none"
    /\ \E c \in FPClips, l \in FPLasts, p \in FPHashes :
          /\ clip' = [clip EXCEPT ![h] = c]
          /\ last_clipboard_content' = [last_clipboard_content EXCEPT ![h] = l]
          /\ last_plain_text_content' = [last_plain_text_content EXCEPT ![h] = p]
    /\ io' = [NoIO EXCEPT !.step = "prepare", !.host = h]
    /\ UNCHANGED <<now, remote, pc, last_image_hash, file_counter, first_clipboard_capture,
                   remote_file_timestamps, last_remote_check, poll_failed, use_copyq, captures,
                   local_sync_file, setter, assigned, successes, polled, events, returned>>

NextFP ==
    \/ Prepare("h1")
    \/ CallFingerprint("h1")
    \/ StoreLast("h1")
    \/ Respace("h1")

SpecFP == Init /\ [][NextFP]_vars

\* the user copies something else once the result of a call is last-known
Recopy(h) ==
    /\ returned # <<>>
    /\ Len(returned) < MaxCalls
    /\ io.step = "store"
    /\ \E c \in FPClips :
          /\ c # clip[h]
          /\ clip' = [clip EXCEPT ![h] = c]
    /\ io' = [NoIO EXCEPT !.step = "copy", !.host = h]
    /\ UNCHANGED <<now, remote, pc, last_clipboard_content, last_plain_text_content,
                   last_image_hash, file_counter, first_clipboard_capture,
                   remote_file_timestamps, last_remote_check, poll_failed, use_copyq, captures,
                   local_sync_file, setter, assigned, successes, polled, events, returned>>

NextVol ==
    \/ Prepare("h1")
    \/ CallFingerprint("h1")
    \/ StoreLast("h1")
    \/ Recopy("h1")

SpecVol == Init /\ [][NextVol]_vars

\* ------------------------------------------------------------------ claims
\* the fingerprint a tick of host h would compute now
CurrentFP(h) ==
    get_current_clipboard_fingerprint(clip[h], last_clipboard_content[h],
                                      last_plain_text_content[h]).fp

Uploaded(h) ==
    remote[local_upload_file(h)].body = SaveByKind(clip[h], 0, FALSE, Unset).upload

\* nothing of the user's is waiting on host h to be propagated
Settled(h) == setter[h] = "remote" \/ clip[h] = EmptyClip \/ Uploaded(h)

\* C2 - Convergence: once users have stopped copying and every host has done a
\* full (not rate-limited) poll after the last push, all hosts hold the same
\* clipboard value.
C2_Convergence ==
    (polled = Hosts /\ \A h \in Hosts : Settled(h)) => \A g, h \in Hosts : clip[g] = clip[h]

\* C3 - Last writer wins: a host that has pushed content with remote timestamp
\* T never afterwards replaces its clipboard with peer content of a lower
\* remote timestamp.
C3_LastWriterWins ==
    (io.step = "poll" /\ io.applied # NoName) =>
       remote[io.applied].mtime >= remote[local_upload_file(io.host)].mtime

\* C4 - First-capture suppression: the first successful capture of a run writes
\* its numbered file and uploads nothing; the second one attempts an upload.
C4_FirstCaptureSuppression ==
    \A h \in Hosts :
       /\ first_clipboard_capture[h] <=> successes[h] = 0
       /\ successes[h] >= 1 => captures[h] # {}
       /\ (io.step = "detect" /\ io.host = h /\ io.wrote # {}) =>
             /\ successes[h] = 1 => ~io.put
             /\ successes[h] = 2 => io.put

C4_Witness ==
    /\ io.step = "detect" /\ io.host = "h1" /\ io.wrote # {} /\ io.put
    /\ successes["h1"] = 2
    /\ Cardinality({f[1] : f \in captures["h1"]}) = 2

\* C5 - Change detection step: a tick whose fingerprint is non-empty and differs
\* from last-known writes a numbered capture file, attempts a push unless it is
\* the first capture since startup, and sets last-known to the new fingerprint.
C5_ChangeDetectionStep ==
    [][\A h \in Hosts :
          (pc[h] = "detect" /\ pc'[h] = "poll"
             /\ CurrentFP(h) # EmptyFP /\ CurrentFP(h) # last_clipboard_content[h]) =>
                /\ io'.wrote # {}
                /\ first_clipboard_capture[h] \/ io'.put
                /\ last_clipboard_content'[h] = CurrentFP(h)]_vars

\* C6 - Most-recent-in-batch selection: what a poll applies is the content of a
\* peer file it downloaded and read, and no other file read in that poll has a
\* higher remote timestamp, whatever the order of enumeration.
C6_MostRecentInBatch ==
    (io.step = "poll" /\ io.applied # NoName) =>
       /\ io.applied \in io.read
       /\ \A f \in io.read : remote[f].mtime <= remote[io.applied].mtime
       /\ clip[io.host] = set_clipboard_content_unified(remote[io.applied].body, EmptyClip,
                                                        Unset, use_copyq[io.host], TRUE).clip

C6_Witness ==
    /\ io.step = "poll" /\ io.applied # NoName
    /\ \E f \in io.read : remote[f].mtime < remote[io.applied].mtime

\* C7 - Rate limiting: a poll made less than remote_check_interval seconds
\* after the previous full poll sends no request and leaves the timestamp table,
\* the clipboard and the last-known fingerprint unchanged; a poll that does
\* enumerate comes at least one interval after the previous one.
C7_RateLimiting ==
    [][\A h \in Hosts :
          (pc[h] = "poll" /\ pc'[h] = "detect") =>
             IF now - last_remote_check[h] < remote_check_interval
             THEN /\ ~io'.propfind /\ io'.gets = {} /\ io'.applied = NoName
                  /\ remote_file_timestamps'[h] = remote_file_timestamps[h]
                  /\ clip'[h] = clip[h]
                  /\ last_clipboard_content'[h] = last_clipboard_content[h]
                  /\ last_remote_check'[h] = last_remote_check[h]
             ELSE io'.propfind /\ last_remote_check'[h] = now]_vars

C7_Witness ==
    /\ io.step = "poll" /\ io.host = "h1" /\ ~io.propfind
    /\ \E f \in Files : remote[f].mtime > remote_file_timestamps["h1"][f]
                        /\ remote_file_timestamps["h1"][f] # NotKey

\* C8 - Rotation bound: every assigned number is in 1..999, the k-th assignment
\* is ((k - 1) mod 999) + 1, and the 1000th assignment is 1 again, so that
\* capture reuses the file name of the first capture.
C8_RotationBound ==
    \A h \in Hosts :
       /\ assigned[h] = 0 => file_counter[h] = 0
       /\ assigned[h] >= 1 =>
             /\ file_counter[h] \in 1..999
             /\ file_counter[h] = ((assigned[h] - 1) % 999) + 1
       /\ (assigned[h] = 1000 /\ io.step = "detect" /\ io.host = h /\ io.wrote # {}) =>
             /\ io.wrote = {<<"clipboard_text", 1, ".txt">>}
             /\ Cardinality(captures[h]) = 999
       /\ \A f \in captures[h] : f[2] \in 1..999

C8_Witness == assigned["h1"] = 1000 /\ io.step = "detect" /\ io.wrote # {}

\* C9 - Idempotence of fingerprinting: two consecutive calls of the fingerprint
\* with the same clipboard return equal values, whatever last-known and the
\* remembered text hash are, and also when last-known is not updated between.
C9_Idempotent ==
    \A i \in 1..(Len(returned) - 1) :
       returned[i].clip = returned[i + 1].clip => returned[i].fp = returned[i + 1].fp

\* C10 - Volatile-format insensitivity: two multi-format clipboards that agree
\* in every format but text/html, and whose text/html differ in whitespace only,
\* have equal fingerprints.
C10_HtmlWhitespaceInsensitive ==
    \A i \in 1..(Len(returned) - 1) :
       (/\ returned[i].clip # returned[i + 1].clip
        /\ \A t \in Targets \ {"text/html"} : returned[i].clip[t] = returned[i + 1].clip[t]
        /\ returned[i].last = returned[i + 1].last) =>
          returned[i].fp = returned[i + 1].fp

\* C11 - Timestamp advance for every downloaded peer: after a poll, the recorded
\* timestamp of every peer file the poll downloaded equals the file's remote
\* timestamp, whatever became of its content.
C11_TimestampAdvance ==
    (io.step = "poll" /\ io.propfind) =>
       \A f \in io.got : remote_file_timestamps[io.host][f] = remote[f].mtime

\* C12 - Self-exclusion: the host's own file name is never a key of its peer
\* timestamp table, and the host never requests or applies its own file, at
\* startup discovery and in every poll.
C12_SelfExclusion ==
    \A h \in Hosts :
       /\ remote_file_timestamps[h][local_upload_file(h)] = NotKey
       /\ io.host = h => (local_upload_file(h) \notin io.gets /\ io.applied # local_upload_file(h))

C12_Witness ==
    /\ io.step = "poll" /\ io.host = "h1" /\ io.applied # NoName
    /\ remote[local_upload_file("h1")].mtime > remote[io.applied].mtime

\* C13 - Once a host is in its main loop, no step takes it out of the loop:
\* whatever call fails inside an iteration (a clipboard read or write, a
\* request, a file write, decompression, JSON parsing), the host goes on to
\* the next half of the iteration or to the next iteration.
InLoop(h) == pc[h] \in {"poll", "detect"}

C13_NeverFatal == [][\A h \in Hosts : InLoop(h) => InLoop(h)']_vars

\* an iteration in which the capture file of a changed plain text could not
\* be opened: the error reached run(), last-known was not updated, and the
\* host is at the start of the next iteration
C13_Witness ==
    /\ io.step = "detect" /\ io.host = "h1" /\ io.error = <<"fswrite">>
    /\ io.wrote = {}
    /\ get_clipboard_content(clip["h1"]) # NoStr
    /\ ~has_clipboard_image(clip["h1"])
    /\ last_clipboard_content["h1"] # CurrentFP("h1")
    /\ pc["h1"] = "poll"

\* C14 - A host stops only at the point between two iterations, and the
\* stopping step itself writes nothing: no capture file, no sync file and no
\* upload belongs to an iteration that was cut short.
C14_CleanInterrupt ==
    [][\A h \in Hosts :
          (pc[h] # "stopped" /\ pc'[h] = "stopped") =>
             /\ pc[h] = "poll"
             /\ captures'[h] = captures[h]
             /\ local_sync_file'[h] = local_sync_file[h]
             /\ remote' = remote]_vars

\* C15 - A startup step goes through dependency check, connection test and
\* peer discovery in that order, each only if the ones before it passed; the
\* host is in the loop exactly when all three ran, and otherwise has exited
\* without listing the folder. A host that exited at startup has written no
\* capture file and no sync file, uploaded nothing, recorded no peer
\* timestamp and never had its clipboard set from a peer.
C15_StartupGating ==
    \A h \in Hosts :
       /\ (io.step = "startup" /\ io.host = h) =>
             /\ Len(io.ran) \in 1..Len(StartupOrder)
             /\ \A k \in 1..Len(io.ran) : io.ran[k][1] = StartupOrder[k]
             /\ \A k \in 1..(Len(io.ran) - 1) : io.ran[k][2]
             /\ InLoop(h) <=> Len(io.ran) = Len(StartupOrder)
             /\ pc[h] = "exited" <=> ~io.ran[Len(io.ran)][2] /\ Len(io.ran) < Len(StartupOrder)
             /\ io.propfind <=> InLoop(h)
       /\ pc[h] = "exited" =>
             /\ captures[h] = {} /\ assigned[h] = 0
             /\ local_sync_file[h] = NoFile
             /\ remote[local_upload_file(h)].body = NoFile
             /\ \A f \in Files : remote_file_timestamps[h][f] = NotKey
             /\ setter[h] = "user"

\* the connection test failed while the folder held a peer's file and the
\* clipboard held something to capture
C15_Witness ==
    /\ io.step = "startup" /\ io.host = "h1" /\ pc["h1"] = "exited"
    /\ io.ran = <<<<"check_dependencies", TRUE>>, <<"test_webdav_connection", FALSE>>>>
    /\ remote[local_upload_file("h2")].body # NoFile
    /\ clip["h1"] # EmptyClip

\* the envelope a capture of clipboard c is uploaded in
CaptureEnvelope(c) ==
    IF has_clipboard_image(c) THEN ImageEnvelope(ReadImage(c))
    ELSE IF has_clipboard_rich_text(c) THEN MultiEnvelope(CollectFormats(c))
    ELSE TextEnvelope(get_clipboard_content(c))

\* the step is a successful capture by host h
Captured(h) == io'.step = "detect" /\ io'.host = h /\ io'.wrote # {}

C17_FingerprintPriority ==
    \A i \in 1..Len(returned) :
       LET c == returned[i].clip
           fp == returned[i].fp
       IN /\ has_clipboard_image(c) => fp.kind = "CLIPBOARD_IMAGE"
          /\ (~has_clipboard_image(c) /\ has_clipboard_rich_text(c)) => fp.kind = "formats"
          /\ fp.kind = "PLAIN_TEXT" => (~has_clipboard_image(c) /\ ~has_clipboard_rich_text(c))
          /\ fp = EmptyFP => get_clipboard_formats(c) = {}

\* the step is the first half of an iteration of host h
Ticking(h) == pc[h] = "poll" /\ pc'[h] = "detect"

\* C18 (as stated) - The iteration that follows a poll in which the
\* enumeration or a download failed makes the same request again.
C18_RetryOnNextTick ==
    [][\A h \in Hosts :
          (Ticking(h) /\ poll_failed[h] # <<"none">>) =>
             /\ io'.propfind
             /\ (poll_failed[h][1] = "get" /\ io'.error # <<"list">>) =>
                   poll_failed[h][2] \in io'.gets]_vars

\* C18 (amended) - A failed enumeration changes neither the clipboard, nor
\* last-known, nor the recorded timestamps; a failed download leaves the
\* file's recorded timestamp behind the file; a failed clipboard read changes
\* neither last-known nor the captures, and the next iteration reads again.
\* The first iteration after a failed enumeration or download that is not
\* rate-limited enumerates again and, if the enumeration succeeds and gives
\* the file's modification time, requests the file again; the rate-limited
\* iterations before it make no request.
C18_RetryWhenDue ==
    [][\A h \in Hosts :
          /\ (Ticking(h) /\ poll_failed[h] # <<"none">> /\ ~RateLimited(h)) =>
                /\ io'.propfind
                /\ (/\ poll_failed[h][1] = "get"
                    /\ io'.error \notin {<<"list">>, <<"lm", poll_failed[h][2]>>}) =>
                      poll_failed[h][2] \in io'.gets
          /\ (Ticking(h) /\ poll_failed[h] # <<"none">> /\ RateLimited(h)) =>
                (~io'.propfind /\ io'.gets = {} /\ poll_failed'[h] = poll_failed[h])
          /\ (Ticking(h) /\ io'.error = <<"list">>) =>
                /\ clip'[h] = clip[h]
                /\ last_clipboard_content'[h] = last_clipboard_content[h]
                /\ remote_file_timestamps'[h] = remote_file_timestamps[h]
          /\ (Ticking(h) /\ io'.error[1] = "get") =>
                remote_file_timestamps'[h][io'.error[2]] < remote[io'.error[2]].mtime
          /\ (pc[h] = "detect" /\ io'.step = "detect" /\ io'.host = h
                               /\ io'.error = <<"read">>) =>
                /\ last_clipboard_content'[h] = last_clipboard_content[h]
                /\ captures'[h] = captures[h]
                /\ pc'[h] = "poll"]_vars

\* a download failed, the interval has passed, and the host is about to poll
C18_Witness ==
    /\ pc["h1"] = "poll"
    /\ poll_failed["h1"] = <<"get", local_upload_file("h2")>>
    /\ last_remote_check["h1"] >= remote_check_interval
    /\ ~RateLimited("h1")
    /\ remote_file_timestamps["h1"][local_upload_file("h2")]
          < remote[local_upload_file("h2")].mtime

\* a file that does not decompress, is not JSON, or has another "type"
BadPayloads == {"BADGZ", "BADJSON", "UNKNOWN"}

\* C19 - A poll never applies a file that does not decompress, is not JSON or
\* has an unknown type; a poll whose downloads are all of that sort leaves the
\* clipboard and last-known as they were, and the host goes on to the rest
\* of the iteration.
C19_BadPayloadNoResult ==
    [][\A h \in Hosts :
          Ticking(h) =>
             /\ io'.applied # NoName => remote[io'.applied].body.type \notin BadPayloads
             /\ (io'.got # {} /\ \A f \in io'.got : remote[f].body.type \in BadPayloads) =>
                   /\ clip'[h] = clip[h]
                   /\ last_clipboard_content'[h] = last_clipboard_content[h]
                   /\ pc'[h] = "detect"]_vars

\* a poll has downloaded and selected a peer file that is not JSON while the
\* clipboard held the user's copy
C19_Witness ==
    /\ io.step = "poll" /\ io.host = "h1"
    /\ io.got = {local_upload_file("h2")} /\ io.read = io.got
    /\ remote[local_upload_file("h2")].body.type = "BADJSON"
    /\ io.applied = NoName
    /\ clip["h1"] # EmptyClip /\ setter["h1"] = "user"
    /\ pc["h1"] = "detect"

\* C20 - Bounded history: whatever is captured, the capture directory never
\* holds more than 999 distinct files.
C20_BoundedHistory == \A h \in Hosts : Cardinality(captures[h]) <= MaxFileNumber

\* the step is the second half of an iteration of host h
Detecting(h) == pc[h] = "detect" /\ io'.step = "detect" /\ io'.host = h

\* what an idle half of an iteration must leave alone
IdleFrame(h) ==
    /\ captures'[h] = captures[h]
    /\ remote' = remote
    /\ file_counter'[h] = file_counter[h]
    /\ first_clipboard_capture'[h] = first_clipboard_capture[h]
    /\ last_clipboard_content'[h] = last_clipboard_content[h]
    /\ local_sync_file'[h] = local_sync_file[h]
    /\ io'.wrote = {} /\ ~io'.put

\* C21 - Idle tick frame: the first half of an iteration that applies no
\* remote update, and the second half of an iteration whose fingerprint is
\* empty or equal to last-known, write no capture file, upload nothing and
\* leave the file counter, the first-capture flag, last-known and the sync
\* file as they were.
C21_IdleTickFrame ==
    [][\A h \in Hosts :
          /\ (Ticking(h) /\ io'.applied = NoName) => IdleFrame(h)
          /\ (Detecting(h) /\ (\/ io'.error = <<"read">>
                                \/ CurrentFP(h) = EmptyFP
                                \/ CurrentFP(h) = last_clipboard_content[h])) =>
                IdleFrame(h)]_vars

\* an idle second half on a host that has captured before and whose
\* clipboard holds that capture
C21_Witness ==
    /\ io.step = "detect" /\ io.host = "h1" /\ io.wrote = {} /\ io.error = <<"none">>
    /\ successes["h1"] >= 1
    /\ clip["h1"] # EmptyClip
    /\ CurrentFP("h1") = last_clipboard_content["h1"]
    /\ setter["h1"] = "user"

\* the fingerprint of clipboard c by itself, nothing remembered from before
StateFP(c) == get_current_clipboard_fingerprint(c, EmptyFP, Unset).fp

\* C22 - Last-known from actual state: right after a poll has applied a
\* remote snapshot, last-known is the fingerprint of what the clipboard holds,
\* on either backend and whatever was captured before.
C22_LastKnownFromActualState ==
    (io.step = "poll" /\ io.applied # NoName) =>
       last_clipboard_content[io.host] = StateFP(clip[io.host])

\* C23 - Tie-break: among the files a poll read, no file enumerated before the
\* applied one has a timestamp as high as it: of several files with the
\* highest timestamp the one enumerated first is applied.
C23_TieBreak ==
    (io.step = "poll" /\ io.applied # NoName) =>
       \A k \in 1..Len(io.order) :
          io.order[k] = io.applied =>
             \A j \in 1..(k - 1) : remote[io.order[j]].mtime < remote[io.applied].mtime

\* two files with the same timestamp were read in one poll and the first was applied
C23_Witness ==
    /\ io.step = "poll" /\ Len(io.order) = 2
    /\ remote[io.order[1]].mtime = remote[io.order[2]].mtime
    /\ io.applied = io.order[1]
    /\ remote[io.order[1]].body # remote[io.order[2]].body

\* the formats that applications do not rewrite from one read to the next;
\* the others of a rich clipboard (HTML, RTF) are the volatile ones
StableFormats == Targets \cap {"text/plain", "text/uri-list", "text/x-moz-url"}

\* call i fingerprinted a rich clipboard, its result became last-known, and
\* call i + 1 fingerprinted another rich clipboard
AfterRichCapture(i) ==
    /\ returned[i].fp.kind = "formats"
    /\ returned[i].fp = StateFP(returned[i].clip)
    /\ returned[i + 1].last = returned[i].fp
    /\ returned[i + 1].clip # returned[i].clip
    /\ ~has_clipboard_image(returned[i + 1].clip)
    /\ has_clipboard_rich_text(returned[i + 1].clip)

\* C24 - Volatile-only change suppression: after a rich capture, a clipboard
\* that differs from the captured one in volatile formats only has the
\* fingerprint last-known; one that differs in a stable format has a
\* fingerprint other than last-known.
C24_VolatileOnlySuppressed ==
    \A i \in 1..(Len(returned) - 1) :
       AfterRichCapture(i) =>
          IF \A t \in StableFormats : returned[i].clip[t] = returned[i + 1].clip[t]
          THEN returned[i + 1].fp = returned[i + 1].last
          ELSE returned[i + 1].fp # returned[i + 1].last

\* ---------------------------------------------------------------- C25
\* a peer file exists in the remote folder
Exists(f) == remote[f].body.type # "NONE"

\* the startup of h has gone through discover_remote_peers
Discovering(h) == pc[h] = "start" /\ pc'[h] = "poll" /\ io'.step = "startup"

\* a poll of h that enumerated the folder and got a modification time for f
Enumerated(h, f) ==
    /\ Ticking(h) /\ io'.propfind
    /\ io'.error # <<"list">> /\ io'.error # <<"lm", f>>

\* C25: a peer file found by the startup discovery is recorded with its
\* modification time, or with 0 when that time is unknown; a poll requests a
\* file only when its modification time is strictly greater than the
\* recorded one, and a file recorded as 0 is requested by the first poll that
\* gets its modification time
C25_DiscoveryBaseline ==
    [][\A h \in Hosts : \A f \in Files \ {local_upload_file(h)} :
          /\ (Discovering(h) /\ Exists(f)) =>
                remote_file_timestamps'[h][f] =
                   IF io'.error = <<"list">> THEN NotKey
                   ELSE IF io'.error = <<"lm", f>> THEN 0
                   ELSE remote[f].mtime
          /\ (Ticking(h) /\ f \in io'.gets) =>
                /\ remote[f].mtime > remote_file_timestamps[h][f]
                /\ remote[f].mtime > 0
          /\ (Enumerated(h, f) /\ Exists(f) /\ remote_file_timestamps[h][f] = 0) =>
                f \in io'.gets]_vars

\* a full poll leaves alone the file that the discovery recorded: the
\* clipboard was never written, and the recorded time is the file's own
C25_Witness ==
    /\ io.step = "poll" /\ io.host = "h1" /\ io.propfind /\ io.error = <<"none">>
    /\ io.gets = {}
    /\ \E f \in Files \ {local_upload_file("h1")} :
          /\ Exists(f)
          /\ remote[f].body.type = "PLAIN_TEXT"
          /\ remote_file_timestamps["h1"][f] = remote[f].mtime
    /\ clip["h1"] = EmptyClip

\* ---------------------------------------------------------------- C26
\* the formats a map of a MULTI_FORMAT_CLIPBOARD file can carry here
MapFormats == {"text/html", "text/rtf", "text/plain", "text/uri-list"}

MapValues == {<<"a">>, <<"b">>}

\* the format maps: up to two formats, in the order of the file
FormatMaps ==
    {<<>>}
    \cup {<<<<t, v>>>> : t \in MapFormats, v \in MapValues}
    \cup UNION {{<<<<t1, v1>>, <<t2, v2>>>> :
                    v1 \in MapValues, t2 \in MapFormats \ {t1}, v2 \in MapValues} :
                 t1 \in MapFormats}

\* one call of set_clipboard_multiple_formats on host h, the command
\* succeeding or not
CallMultipleFormats(h) ==
    /\ Len(returned) < MaxCalls
    /\ \E format_data \in FormatMaps : \E writeOK \in BOOLEAN :
          LET w == set_clipboard_multiple_formats(format_data, clip[h], use_copyq[h], writeOK)
          IN /\ clip' = [clip EXCEPT ![h] = w.clip]
             /\ returned' = Append(returned, [format_data |-> format_data, ran |-> writeOK,
                                               ok |-> w.ok, before |-> clip[h],
                                               after |-> w.clip])
    /\ io' = [NoIO EXCEPT !.step = "write", !.host = h]
    /\ UNCHANGED <<now, remote, pc, last_clipboard_content, last_plain_text_content,
                   last_image_hash, file_counter, first_clipboard_capture,
                   remote_file_timestamps, last_remote_check, poll_failed, use_copyq, captures,
                   local_sync_file, setter, assigned, successes, polled, events>>

NextXclip == CallMultipleFormats("h2")

SpecXclip == Init /\ [][NextXclip]_vars

\* the formats a clipboard offers
Offered(c) == {t \in Targets : c[t] # Absent}

\* C26: with xclip, a non-empty format map puts exactly one format on the
\* clipboard: text/html if the map has it, else text/rtf, else text/plain,
\* else a format of the map, with the value the map gives it; an empty map
\* reports failure and leaves the clipboard as it was
C26_XclipOneFormat ==
    \A i \in 1..Len(returned) :
       LET r == returned[i]
           keys == FormatKeys(r.format_data)
       IN /\ (r.format_data # <<>> /\ r.ran) =>
                /\ r.ok
                /\ Cardinality(Offered(r.after)) = 1
                /\ Offered(r.after) \subseteq keys
                /\ \A t \in Offered(r.after) : r.after[t] = FormatValue(r.format_data, t)
                /\ "text/html" \in keys => Offered(r.after) = {"text/html"}
                /\ ("text/html" \notin keys /\ "text/rtf" \in keys) =>
                      Offered(r.after) = {"text/rtf"}
                /\ ("text/html" \notin keys /\ "text/rtf" \notin keys
                      /\ "text/plain" \in keys) => Offered(r.after) = {"text/plain"}
          /\ r.format_data = <<>> => (~r.ok /\ r.after = r.before)

\* a map with text/plain first and text/html second was written over a
\* clipboard that held something else, and then an empty map was refused
C26_Witness ==
    /\ Len(returned) = 2
    /\ returned[1].ran /\ returned[1].ok
    /\ returned[1].format_data = <<<<"text/plain", <<"a">>>>, <<"text/html", <<"b">>>>>>
    /\ returned[2].format_data = <<>> /\ ~returned[2].ok
    /\ clip["h2"] = OnlyTarget("text/html", <<"b">>)

\* ---------------------------------------------------------------- C27
\* a peer replaces its remote file; the latest upload is remembered with the
\* hosts that were in their loop when it happened
PeerUpload(p) ==
    /\ events < MaxEvents
    /\ \E body \in PeerBodies(p) :
          remote' = [remote EXCEPT ![local_upload_file(p)] = RemoteFile(body, now)]
    /\ events' = events + 1
    /\ polled' = {}
    /\ returned' = <<[name |-> local_upload_file(p), running |-> {h \in Hosts : InLoop(h)}]>>
    /\ io' = [NoIO EXCEPT !.step = "peer"]
    /\ UNCHANGED <<now, hostvars, setter, assigned, successes, poll_failed>>

NextPush ==
    \/ StartupNoFault("h1")
    \/ PollNoFault("h1")
    \/ DetectNoFault("h1")
    \/ \E p \in Peers : PeerUpload(p)
    \/ Advance

SpecPush == Init /\ [][NextPush]_vars

\* the poll of this step is the first one of h that enumerates the folder
\* since the latest upload, which happened while h was running
FirstPollSinceUpload(h) ==
    /\ Ticking(h) /\ io'.propfind
    /\ returned # <<>> /\ h \in returned[1].running
    /\ h \notin polled

\* C27: the first poll of a host that is not rate limited after a peer's
\* upload downloads that peer's file
C27_EveryPushDetected ==
    [][\A h \in Hosts : FirstPollSinceUpload(h) => returned[1].name \in io'.gets]_vars

\* ---------------------------------------------------------------- C28
\* the clipboard holds rich content: no image target, a rich-text target
RichHeld(c) == ~has_clipboard_image(c) /\ has_clipboard_rich_text(c)

OtherKinds == {"CLIPBOARD_IMAGE", "PLAIN_TEXT"}

\* C28: the change detection of a tick whose clipboard holds rich content
\* does not end with an image or plain-text fingerprint as last-known, and
\* when last-known was the fingerprint of such other content the tick writes
\* a capture file
C28_FingerprintMatchesKind ==
    [][\A h \in Hosts :
          (Detecting(h) /\ RichHeld(clip[h])) =>
             /\ last_clipboard_content'[h].kind \notin OtherKinds
             /\ last_clipboard_content[h].kind \in OtherKinds => io'.wrote # {}]_vars

\* ---------------------------------------------------------------- C29
\* the clipboard of h holds the image whose hash h remembers, after content
\* of another kind that h captured and pushed
ImageRecopied(h) ==
    /\ has_clipboard_image(clip[h])
    /\ last_image_hash[h] = MD5(ReadImage(clip[h]))
    /\ \E c \in ClipChoices :
          /\ ~has_clipboard_image(c)
          /\ last_clipboard_content[h] = StateFP(c)
          /\ remote[local_upload_file(h)].body = CaptureEnvelope(c)

\* C29: a tick that finds on the clipboard the image last captured or
\* applied, after other content that was captured and pushed, writes a
\* capture file and pushes the image
C29_ImageRecopyPropagated ==
    [][\A h \in Hosts :
          (Detecting(h) /\ ImageRecopied(h)) =>
             /\ io'.wrote # {}
             /\ io'.put
             /\ remote'[local_upload_file(h)].body = CaptureEnvelope(clip[h])]_vars

\* ---------------------------------------------------------------- C30
\* the tick of this step found a change and its capture step wrote no file
CaptureFailed(h) ==
    /\ Detecting(h) /\ io'.error # <<"read">>
    /\ Changed(CurrentFP(h), last_clipboard_content[h])
    /\ io'.wrote = {}

\* C30: a tick whose capture step writes no capture file leaves last-known
\* as it was
C30_FailedCaptureRetried ==
    [][\A h \in Hosts :
          CaptureFailed(h) => last_clipboard_content'[h] = last_clipboard_content[h]]_vars

\* ---------------------------------------------------------------- C31
\* a tick whose upload may fail; nothing else goes wrong
DetectPutFault(h) == DetectWith(h, {"none", "put"})

NextLive ==
    \/ StartupNoFault("h1")
    \/ PollNoFault("h1")
    \/ DetectPutFault("h1")
    \/ UserCopyText("h1")
    \/ Advance

\* "while True:" - the loop of a started process goes on: a tick that can be
\* taken is taken, and time passes
SpecLive ==
    /\ Init /\ [][NextLive]_vars
    /\ WF_vars(PollNoFault("h1")) /\ WF_vars(DetectPutFault("h1")) /\ WF_vars(Advance)

\* the upload of the tick that has just ended failed
PushFailed(h) == io.step = "detect" /\ io.host = h /\ io.error = <<"put">>

\* the remote file of h holds the snapshot h wrote last
Delivered(h) == remote[local_upload_file(h)].body = local_sync_file[h]

\* the clipboard of h is no longer the one of the snapshot
CopiedSince(h) == CaptureEnvelope(clip[h]) # local_sync_file[h]

\* C31: after a tick whose upload failed, the remote file of the host comes
\* to hold that snapshot, unless the clipboard changes
C31_FailedPushDelivered ==
    \A h \in Hosts : PushFailed(h) ~> (Delivered(h) \/ CopiedSince(h))

\* ---------------------------------------------------------------- C32
\* a poll in which the write to the clipboard may fail; the files read by the
\* latest poll whose write failed are remembered until a poll applies one
PollRecorded(h) ==
    /\ PollStep(h, {<<"none">>, <<"write">>})
    /\ returned' = IF io'.error = <<"write">> THEN <<[files |-> io'.read]>>
                   ELSE IF io'.applied # NoName THEN <<>>
                   ELSE returned

NextApply ==
    \/ StartupNoFault("h1")
    \/ PollRecorded("h1")
    \/ DetectNoFault("h1")
    \/ PeerPush("h2")
    \/ Advance

SpecApply == Init /\ [][NextApply]_vars

\* the poll of this step enumerates the folder while an apply that failed is
\* still owed
PollAfterFailedApply(h) ==
    /\ Ticking(h) /\ io'.propfind /\ io'.error # <<"list">>
    /\ returned # <<>>

\* C32: after a poll that downloaded and selected a peer's content and
\* failed to write it to the clipboard, the next poll that enumerates the
\* folder downloads that peer's file again
C32_FailedApplyRetried ==
    [][\A h \in Hosts :
          PollAfterFailedApply(h) => returned[1].files \subseteq io'.gets]_vars

\* ---------------------------------------------------------------- C33
\* json.dumps(..., ensure_ascii=False) of a string, without the quotes:
\* backslash, newline and tab are escaped, non-ASCII characters are kept
RECURSIVE JsonDumps(_)
JsonDumps(s) ==
    IF s = <<>> THEN <<>>
    ELSE (CASE Head(s) = "\\" -> <<"\\", "\\">>
            [] Head(s) = "\n" -> <<"\\", "n">>
            [] Head(s) = "\t" -> <<"\\", "t">>
            [] OTHER -> <<Head(s)>>) \o JsonDumps(Tail(s))

\* json.loads of what JsonDumps wrote
RECURSIVE JsonLoads(_)
JsonLoads(j) ==
    IF j = <<>> THEN <<>>
    ELSE IF Head(j) = "\\" /\ Len(j) >= 2
         THEN (CASE j[2] = "n" -> <<"\n">>
                 [] j[2] = "t" -> <<"\t">>
                 [] OTHER -> <<j[2]>>) \o JsonLoads(SubSeq(j, 3, Len(j)))
         ELSE <<Head(j)>> \o JsonLoads(Tail(j))

\* the characters of the texts copied: a letter, the letter n, a backslash, a
\* non-ASCII character, a space and a newline
TextChars == {"a", "n", "\\", "U+E9", " ", "\n"}

MaxTextLen == 2

TextStrings == UNION {[1..k -> TextChars] : k \in 1..MaxTextLen}

\* the user of h1 copies a text, h1 captures it into its PLAIN_TEXT envelope
\* and h2 applies the envelope it downloaded
TextRoundTrip ==
    /\ Len(returned) < MaxCalls
    /\ \E s \in TextStrings :
          LET copied == OnlyTarget("text/plain", s)
              content == get_clipboard_content(copied)
              upload_json == JsonDumps(content)
              env == TextEnvelope(JsonLoads(upload_json))
              w == set_clipboard_content_unified(env, clip["h2"], last_image_hash["h2"],
                                                 use_copyq["h2"], TRUE)
          IN /\ content # NoStr
             /\ clip' = [clip EXCEPT !["h1"] = copied, !["h2"] = w.clip]
             /\ returned' = Append(returned, [sent |-> content, json |-> upload_json,
                                               received |-> w.clip["text/plain"]])
    /\ io' = [NoIO EXCEPT !.step = "roundtrip"]
    /\ UNCHANGED <<now, remote, pc, last_clipboard_content, last_plain_text_content,
                   last_image_hash, file_counter, first_clipboard_capture,
                   remote_file_timestamps, last_remote_check, poll_failed, use_copyq, captures,
                   local_sync_file, setter, assigned, successes, polled, events>>

NextText == TextRoundTrip

SpecText == Init /\ [][NextText]_vars

\* C33: the text a host gets on its clipboard from a PLAIN_TEXT envelope is
\* the text the sending host captured into it
C33_TextRoundTrip ==
    \A i \in 1..Len(returned) : returned[i].received = returned[i].sent

\* ---------------------------------------------------------------- C34
\* "has_image = self.has_clipboard_image(); has_rich = ..." - the first read
\* of the second half of an iteration; what it saw is kept for the saver
ReadKinds(h) ==
    /\ pc[h] = "detect"
    /\ pc' = [pc EXCEPT ![h] = "fingerprint"]
    /\ returned' = <<[ck |-> clip[h]]>>
    /\ io' = [NoIO EXCEPT !.step = "kinds", !.host = h]
    /\ UNCHANGED <<now, remote, clip, last_clipboard_content, last_plain_text_content,
                   last_image_hash, file_counter, first_clipboard_capture,
                   remote_file_timestamps, last_remote_check, poll_failed, use_copyq, captures,
                   local_sync_file, setter, assigned, successes, polled, events>>

\* "current_fingerprint = self.get_current_clipboard_fingerprint()" - the
\* second read
ReadFingerprint(h) ==
    /\ pc[h] = "fingerprint"
    /\ pc' = [pc EXCEPT ![h] = "save"]
    /\ returned' = <<[ck |-> returned[1].ck, cf |-> clip[h]]>>
    /\ io' = [NoIO EXCEPT !.step = "fingerprint", !.host = h]
    /\ UNCHANGED <<now, remote, clip, last_clipboard_content, last_plain_text_content,
                   last_image_hash, file_counter, first_clipboard_capture,
                   remote_file_timestamps, last_remote_check, poll_failed, use_copyq, captures,
                   local_sync_file, setter, assigned, successes, polled, events>>

\* the comparison with last-known and the saver, which reads the clipboard
\* a third time
CompareAndSave(h) ==
    /\ pc[h] = "save"
    /\ DetectReads(h, {"none"}, returned[1].ck, returned[1].cf, clip[h])
    /\ returned' = <<>>

UserCopyAny(h) == UserCopyFrom(h, {TextA, TextB, Image1})

NextRace ==
    \/ StartupNoFault("h1")
    \/ PollNoFault("h1")
    \/ ReadKinds("h1")
    \/ ReadFingerprint("h1")
    \/ CompareAndSave("h1")
    \/ UserCopyAny("h1")
    \/ Advance

SpecRace == Init /\ [][NextRace]_vars

\* the iteration of h ends in this step, and the clipboard changed between
\* two of its reads
RacedTick(h) ==
    /\ pc[h] = "save" /\ pc'[h] = "poll"
    /\ returned[1].ck # returned[1].cf \/ returned[1].cf # clip[h]

\* C34: when the clipboard changes between the reads of one tick and the
\* tick ends with a new last-known fingerprint, the tick has written a
\* capture file, and last-known is the fingerprint of the content the saver
\* read
C34_CaptureMatchesFingerprint ==
    [][\A h \in Hosts :
          (RacedTick(h) /\ last_clipboard_content'[h] # last_clipboard_content[h]) =>
             /\ io'.wrote # {}
             /\ last_clipboard_content'[h] = StateFP(clip[h])]_vars

\* ---------------------------------------------------------------- C35
\* C35: the recorded timestamp of a peer file that is a key of the table
\* never decreases and the key stays; the table is changed only by the
\* startup discovery and by a poll that is not rate limited
C35_TimestampsMonotone ==
    [][\A h \in Hosts : \A f \in Files :
          /\ remote_file_timestamps[h][f] # NotKey =>
                /\ remote_file_timestamps'[h][f] # NotKey
                /\ remote_file_timestamps'[h][f] >= remote_file_timestamps[h][f]
          /\ remote_file_timestamps'[h][f] # remote_file_timestamps[h][f] =>
                \/ Discovering(h)
                \/ Ticking(h) /\ io'.propfind /\ ~RateLimited(h)]_vars

\* a poll has raised the recorded time of a file to that of an upload made
\* after the first second, with both peer files in the table
C35_Witness ==
    /\ io.step = "poll" /\ io.host = "h1" /\ io.propfind
    /\ \E f \in io.got :
          /\ remote[f].mtime > remote_check_interval
          /\ remote_file_timestamps["h1"][f] = remote[f].mtime
    /\ \A f \in Files \ {local_upload_file("h1")} : remote_file_timestamps["h1"][f] > 0

\* ---------------------------------------------------------------- C36
\* C36: the first-capture flag is true until the loop starts, never goes
\* from false to true, changes only in a tick that writes a capture file, is
\* false after every such tick, and a tick that writes a capture file
\* without attempting an upload is one that found the flag true
C36_SuppressionOnce ==
    [][\A h \in Hosts :
          /\ pc[h] = "start" => first_clipboard_capture[h]
          /\ first_clipboard_capture'[h] => first_clipboard_capture[h]
          /\ first_clipboard_capture'[h] # first_clipboard_capture[h] => Captured(h)
          /\ Captured(h) => ~first_clipboard_capture'[h]
          /\ (Captured(h) /\ ~io'.put) => first_clipboard_capture[h]]_vars

\* the first capture of h1, a text, is withheld from upload after an image of
\* a peer was applied to its clipboard
C36_Witness ==
    /\ io.step = "detect" /\ io.host = "h1" /\ io.wrote # {} /\ ~io.put
    /\ successes["h1"] = 1 /\ ~first_clipboard_capture["h1"]
    /\ clip["h1"] = TextA
    /\ last_image_hash["h1"] = MD5(<<"x", "y">>)
    /\ remote_file_timestamps["h1"][local_upload_file("h2")] = remote[local_upload_file("h2")].mtime
====
